---- MODULE Spec2Model ----
(***************************************************************************)
(* "Pack for LLM" (pack-for-llm-js/extension.js): the command handler that *)
(* resolves the selected files and folders to a flat file list and packs   *)
(* their contents into one annotated document.                             *)
(*                                                                         *)
(* A file or directory name is a sequence of one-character strings, a path *)
(* is a sequence of names whose first element is the root, a Uri is a      *)
(* record with the field fsPath.  The packed document is the sequence of   *)
(* its lines; a line is a record holding the fixed text of the line and    *)
(* the values interpolated into it.                                        *)
(***************************************************************************)
EXTENDS Integers, Sequences, FiniteSets, TLC

VARIABLES
    fsDenied,           \* paths whose readFileSync / readdirSync throws
    fsBroken,           \* paths a directory lists but whose statSync throws
    activeTextEditor,   \* vscode.window.activeTextEditor: its fileName, <<>> if none
    pc,                 \* position of the command handler
    selectedResources,  \* activate: selectedResources
    resIdx,             \* getFilesFromResources: position of the for..of loop
    allFiles,           \* getFilesFromResources / activate: allFiles
    origin,             \* history: for each element of allFiles, the entry it came from
    content,            \* activate: content (<<>> before packFiles returned)
    shownDoc,           \* the document shown by showTextDocument (<<>> if none)
    messages,           \* the messages shown by this invocation, in order
    prevSel,            \* history: the selection of the last invocation that showed a document
    prevDoc             \* history: that document (<<>> if none)

vars == <<fsDenied, fsBroken, activeTextEditor, pc, selectedResources,
          resIdx, allFiles, origin, content, shownDoc, messages, prevSel, prevDoc>>

-----------------------------------------------------------------------------
(* Bounds *)

MaxSel == 2     \* at most this many selected resources in one invocation

-----------------------------------------------------------------------------
(* The file system the handler runs against *)

Root == <<"/">>

n_proj   == <<"p", "r", "o", "j">>
n_ext    == <<"e", "x", "t">>
n_sub    == <<"s", "u", "b">>
n_void   == <<"v", "o", "i", "d">>
n_deep   == <<"d", "e", "e", "p">>
n_ghost  == <<"g", "h", "o", "s", "t">>
n_M_RS   == <<"M", ".", "R", "S">>
n_b_js   == <<"b", ".", "j", "s">>
n_env    == <<".", "e", "n", "v">>
n_git    == <<".", "g", "i", "t">>
n_config == <<"c", "o", "n", "f", "i", "g">>
n_dotx   == <<".", "x">>
n_y_c    == <<"y", ".", "c">>
n_lib_rs == <<"l", "i", "b", ".", "r", "s">>
n_n_xyz  == <<"n", ".", "x", "y", "z">>
n_keep   == <<".", "k", "e", "e", "p">>
n_Untitled == <<"U", "n", "t", "i", "t", "l", "e", "d", "-", "1">>

p_proj   == <<Root, n_proj>>
p_ext    == <<Root, n_ext>>
p_M_RS   == <<Root, n_ext, n_M_RS>>
p_sub    == <<Root, n_proj, n_sub>>
p_void   == <<Root, n_proj, n_void>>
p_ghost  == <<Root, n_proj, n_ghost>>
p_b_js   == <<Root, n_proj, n_sub, n_b_js>>
p_env    == <<Root, n_proj, n_sub, n_env>>
p_git    == <<Root, n_proj, n_sub, n_git>>
p_config == <<Root, n_proj, n_sub, n_git, n_config>>
p_deep   == <<Root, n_proj, n_sub, n_deep>>
p_dotx   == <<Root, n_proj, n_sub, n_deep, n_dotx>>
p_y_c    == <<Root, n_proj, n_sub, n_deep, n_dotx, n_y_c>>
p_lib_rs == <<Root, n_proj, n_sub, n_deep, n_lib_rs>>
p_n_xyz  == <<Root, n_proj, n_sub, n_deep, n_n_xyz>>
p_keep   == <<Root, n_proj, n_void, n_keep>>

\* The directories, each with its entries in the order readdirSync lists them.
Listing ==
    { <<<<Root>>, <<n_proj, n_ext>>>>,
      <<p_proj,   <<n_sub, n_void>>>>,
      <<p_ext,    <<n_M_RS>>>>,
      <<p_sub,    <<n_b_js, n_env, n_git, n_deep>>>>,
      <<p_git,    <<n_config>>>>,
      <<p_deep,   <<n_dotx, n_n_xyz, n_lib_rs>>>>,
      <<p_dotx,   <<n_y_c>>>>,
      <<p_void,   <<n_keep>>>> }

\* The regular files: <<path, content, size in bytes, mtime>>.
Files ==
    { <<p_M_RS,   "fn main() {}", 12, "2025-03-01T08:00:00.000Z">>,
      <<p_b_js,   "let b = 1;", 1080, "2025-03-02T08:00:00.000Z">>,
      <<p_env,    "KEY=1", 5, "2025-03-03T08:00:00.000Z">>,
      <<p_config, "[core]", 6, "2025-03-04T08:00:00.000Z">>,
      <<p_y_c,    "int y;", 6, "2025-03-05T08:00:00.000Z">>,
      <<p_lib_rs, "pub fn f() {}", 2048, "2025-03-06T08:00:00.000Z">>,
      <<p_n_xyz,  "xyz", 3, "2025-03-07T08:00:00.000Z">>,
      <<p_keep,   "", 0, "2025-03-08T08:00:00.000Z">> }

\* The values new Date().toISOString() can return
Timestamps == {"2025-03-08T10:00:00.000Z", "2025-03-08T10:00:01.000Z"}

Dirs == { d[1] : d \in Listing }
FilePaths == { f[1] : f \in Files }
Nodes == Dirs \cup FilePaths

\* The paths that may be faulty, and the paths a user can select.
Deniable == {p_b_js, p_env, p_void}
Breakable == {p_git}
Candidates == {p_sub, p_env, p_ghost, p_void, p_b_js}

\* vscode.workspace.workspaceFolders: the one folder open in the window.
workspaceFolder == p_proj

-----------------------------------------------------------------------------
(* vscode.Uri, path and fs *)

Uri_file(p) == [fsPath |-> p]

IsPrefix(s, t) == Len(s) <= Len(t) /\ SubSeq(t, 1, Len(s)) = s

basename(p) == p[Len(p)]

path_join(dirPath, file) == Append(dirPath, file)

\* path.relative(from, to), for a path `to` below `from`
path_relative(from, to) == SubSeq(to, Len(from) + 1, Len(to))

\* vscode.workspace.getWorkspaceFolder(uri): the folder holding uri, <<>> if none
getWorkspaceFolder(uri) ==
    IF IsPrefix(workspaceFolder, uri.fsPath) THEN workspaceFolder ELSE <<>>

\* fs.statSync(p) throws
statThrows(p) == p \notin Nodes \/ p \in fsBroken

\* fs.statSync(p).isDirectory()
isDirectory(p) == p \in Dirs

\* fs.readdirSync(p) throws
readdirThrows(p) == p \notin Dirs \/ p \in fsDenied

readdirSync(p) == (CHOOSE d \in Listing : d[1] = p)[2]

\* fs.readFileSync(p, 'utf8') throws
readFileThrows(p) == p \notin FilePaths \/ p \in fsDenied

FileOf(p) == CHOOSE f \in Files : f[1] = p
readFileSync(p) == FileOf(p)[2]
statSize(p) == FileOf(p)[3]
statMtime(p) == FileOf(p)[4]

\* String.prototype.startsWith
startsWith(s, c) == Len(s) >= 1 /\ s[1] = c

-----------------------------------------------------------------------------
(* getLanguageId *)

UpperCase == <<"A", "B", "C", "D", "E", "F", "G", "H", "I", "J", "K", "L", "M",
               "N", "O", "P", "Q", "R", "S", "T", "U", "V", "W", "X", "Y", "Z">>
LowerCase == <<"a", "b", "c", "d", "e", "f", "g", "h", "i", "j", "k", "l", "m",
               "n", "o", "p", "q", "r", "s", "t", "u", "v", "w", "x", "y", "z">>

\* String.prototype.toLowerCase
toLowerCase(s) ==
    [i \in 1..Len(s) |->
        IF \E k \in 1..26 : UpperCase[k] = s[i]
        THEN LowerCase[CHOOSE k \in 1..26 : UpperCase[k] = s[i]]
        ELSE s[i]]

\* path.extname(filePath): from the last '.' of the basename to its end; empty
\* when the basename has no '.', when its only '.' is its first character, and
\* for '..'
extname(filePath) ==
    LET base == basename(filePath)
        dots == { i \in 1..Len(base) : base[i] = "." }
        startDot == CHOOSE i \in dots : \A j \in dots : j <= i
    IN  IF dots = {} THEN <<>>
        ELSE IF startDot = 1 THEN <<>>
        ELSE IF base = <<".", ".">> THEN <<>>
        ELSE SubSeq(base, startDot, Len(base))

langMap ==
    { <<<<".", "j", "s">>, "javascript">>,
      <<<<".", "t", "s">>, "typescript">>,
      <<<<".", "p", "y">>, "python">>,
      <<<<".", "h", "t", "m", "l">>, "html">>,
      <<<<".", "c", "s", "s">>, "css">>,
      <<<<".", "j", "s", "o", "n">>, "json">>,
      <<<<".", "m", "d">>, "markdown">>,
      <<<<".", "j", "a", "v", "a">>, "java">>,
      <<<<".", "c", "p", "p">>, "cpp">>,
      <<<<".", "c">>, "c">>,
      <<<<".", "g", "o">>, "go">>,
      <<<<".", "r", "b">>, "ruby">>,
      <<<<".", "p", "h", "p">>, "php">>,
      <<<<".", "r", "s">>, "rust">>,
      <<<<".", "s", "w", "i", "f", "t">>, "swift">>,
      <<<<".", "s", "h">>, "shell">>,
      <<<<".", "j", "s", "x">>, "javascriptreact">>,
      <<<<".", "t", "s", "x">>, "typescriptreact">>,
      <<<<".", "v", "u", "e">>, "vue">> }

getLanguageId_extAsLang(filePath) ==
    LET ext == toLowerCase(extname(filePath))
    IN  IF \E e \in langMap : e[1] = ext
        THEN (CHOOSE e \in langMap : e[1] = ext)[2]
        ELSE IF ext = <<>> THEN "" ELSE "text"

getLanguageId(filePath) ==
    LET ext == toLowerCase(extname(filePath))
    IN  IF \E e \in langMap : e[1] = ext
        THEN (CHOOSE e \in langMap : e[1] = ext)[2]
        ELSE ""

-----------------------------------------------------------------------------
(* getAllFilesFromDir, getFilesFromResources *)

\* What a call returns: the list, or the path whose stat or listing threw.
Returned(list) == [threw |-> FALSE, err |-> <<>>, list |-> list]
Thrown(p) == [threw |-> TRUE, err |-> p, list |-> <<>>]

skipHidden_filesOnly(filePath, file) ==
    startsWith(file, ".") /\ ~isDirectory(filePath)

\* "Skip hidden files and directories"
skipHidden(filePath, file) == startsWith(file, ".")

RECURSIVE getAllFilesFromDir(_, _)
RECURSIVE forEachFile(_, _, _, _)

\* The forEach callback applied to files[i], files[i+1], ...
forEachFile(dirPath, files, i, fileList) ==
    IF i > Len(files) THEN Returned(fileList)
    ELSE LET file == files[i]
             filePath == path_join(dirPath, file)
         IN  IF statThrows(filePath) THEN Thrown(filePath)
             ELSE IF skipHidden(filePath, file)
                  THEN forEachFile(dirPath, files, i + 1, fileList)
             ELSE IF isDirectory(filePath)
                  THEN LET sub == getAllFilesFromDir(filePath, fileList)
                       IN  IF sub.threw THEN sub
                           ELSE forEachFile(dirPath, files, i + 1, sub.list)
             ELSE forEachFile(dirPath, files, i + 1,
                              Append(fileList, Uri_file(filePath)))

getAllFilesFromDir(dirPath, fileList) ==
    IF readdirThrows(dirPath) THEN Thrown(dirPath)
    ELSE forEachFile(dirPath, readdirSync(dirPath), 1, fileList)

resolveResource_skipMissing(resource, list) ==
    IF statThrows(resource.fsPath) THEN Returned(list)
    ELSE IF isDirectory(resource.fsPath)
         THEN LET dirFiles == getAllFilesFromDir(resource.fsPath, <<>>)
              IN  IF dirFiles.threw THEN dirFiles
                  ELSE Returned(list \o dirFiles.list)
    ELSE Returned(Append(list, resource))

resolveResource_hideDirect(resource, list) ==
    IF statThrows(resource.fsPath) THEN Thrown(resource.fsPath)
    ELSE IF isDirectory(resource.fsPath)
         THEN LET dirFiles == getAllFilesFromDir(resource.fsPath, <<>>)
              IN  IF dirFiles.threw THEN dirFiles
                  ELSE Returned(list \o dirFiles.list)
    ELSE IF startsWith(basename(resource.fsPath), ".") THEN Returned(list)
    ELSE Returned(Append(list, resource))

resolveResource_dedup(resource, list) ==
    LET fresh(fs) == SelectSeq(fs, LAMBDA u : \A k \in 1..Len(list) : list[k] # u)
    IN  IF statThrows(resource.fsPath) THEN Thrown(resource.fsPath)
        ELSE IF isDirectory(resource.fsPath)
             THEN LET dirFiles == getAllFilesFromDir(resource.fsPath, <<>>)
                  IN  IF dirFiles.threw THEN dirFiles
                      ELSE Returned(list \o fresh(dirFiles.list))
        ELSE Returned(list \o fresh(<<resource>>))

\* One iteration of the for..of loop of getFilesFromResources
resolveResource(resource, list) ==
    IF statThrows(resource.fsPath) THEN Thrown(resource.fsPath)
    ELSE IF isDirectory(resource.fsPath)
         THEN LET dirFiles == getAllFilesFromDir(resource.fsPath, <<>>)
              IN  IF dirFiles.threw THEN dirFiles
                  ELSE Returned(list \o dirFiles.list)
    ELSE Returned(Append(list, resource))

-----------------------------------------------------------------------------
(* packFiles *)

dividerLength == 80

\* One line of the packed content: its fixed text and the values put into it.
\* A line of raw file content has the fixed text "".
Line(text, a, b, path, str) ==
    [text |-> text, a |-> a, b |-> b, path |-> path, str |-> str]

Blank == Line("", 0, 0, <<>>, "")
Divider(char) == Line(char, dividerLength, 0, <<>>, "")   \* char.repeat(dividerLength)

\* The fixed text of a fence line: three backquotes
Fence == "[fence]"

\* workspaceFolder ? path.relative(workspaceFolder.uri.fsPath, filePath) : filePath
relativePathOf(fileUri) ==
    LET folder == getWorkspaceFolder(fileUri)
    IN  IF folder # <<>> THEN path_relative(folder, fileUri.fsPath)
        ELSE fileUri.fsPath

\* (size / 1024).toFixed(1), in tenths of a KB
toFixed1(size) == (size * 20 + 1024) \div 2048

\* The try block of the second forEach throws for this file
readThrows(filePath) == readFileThrows(filePath) \/ statThrows(filePath)

packHeader_countReadable(files, now) ==
    LET readable == SelectSeq(files, LAMBDA u : ~readThrows(u.fsPath))
    IN  << Line("# Project Files Pack for LLM", 0, 0, <<>>, ""),
           Line("# Total files:", Len(readable), 0, <<>>, ""),
           Line("# Generated:", 0, 0, <<>>, now),
           Blank,
           Line("## Files included:", 0, 0, <<>>, "") >>
        \o [i \in 1..Len(readable) |-> Line("toc", i, 0, relativePathOf(readable[i]), "")]
        \o << Blank, Divider("="), Blank >>

\* The title, the summary and the table of contents
packHeader(files, now) ==
    << Line("# Project Files Pack for LLM", 0, 0, <<>>, ""),
       Line("# Total files:", Len(files), 0, <<>>, ""),
       Line("# Generated:", 0, 0, <<>>, now),
       Blank,
       Line("## Files included:", 0, 0, <<>>, "") >>
    \o [i \in 1..Len(files) |-> Line("toc", i, 0, relativePathOf(files[i]), "")]
    \o << Blank, Divider("="), Blank >>

\* What the try block appends for a file it can read
blockLines(fileUri, index, total, mtime) ==
    LET filePath == fileUri.fsPath
        lang == getLanguageId(filePath)
    IN  << Divider("#"),
           Line("# FILE", index, total, relativePathOf(fileUri), ""),
           Line("# Size:", toFixed1(statSize(filePath)), 0, <<>>, mtime) >>
        \o (IF lang # "" THEN << Line("# Language:", 0, 0, <<>>, lang) >> ELSE <<>>)
        \o << Divider("#"), Blank >>
        \o (IF lang # ""
            THEN << Line(Fence, 0, 0, <<>>, lang),
                    Line("", 0, 0, <<>>, readFileSync(filePath)),
                    Line(Fence, 0, 0, <<>>, ""),
                    Blank >>
            ELSE << Line("", 0, 0, <<>>, readFileSync(filePath)), Blank >>)
        \o << Blank, Divider("="), Blank >>

fileBlock_headerFirst(fileUri, index, total) ==
    IF readThrows(fileUri.fsPath)
    THEN << Divider("#"),
            Line("# FILE", index, total, relativePathOf(fileUri), "") >>
    ELSE blockLines(fileUri, index, total, statMtime(fileUri.fsPath))

\* What one iteration of the second forEach appends to packedContent
fileBlock(fileUri, index, total) ==
    IF readThrows(fileUri.fsPath) THEN <<>>
    ELSE blockLines(fileUri, index, total, statMtime(fileUri.fsPath))

RECURSIVE packBlocks(_, _)
packBlocks(files, index) ==
    IF index > Len(files) THEN <<>>
    ELSE fileBlock(files[index], index, Len(files)) \o packBlocks(files, index + 1)

packFiles(files, now) == packHeader(files, now) \o packBlocks(files, 1)

\* A message shown through vscode.window
Message(level, text, path, n) == [level |-> level, text |-> text, path |-> path, n |-> n]

\* The messages of the catch clause of the second forEach, in order
packErrors(files) ==
    LET failed == SelectSeq(files, LAMBDA u : readThrows(u.fsPath))
    IN  [i \in 1..Len(failed) |->
            Message("error", "Error reading file", relativePathOf(failed[i]), 0)]

-----------------------------------------------------------------------------
(* activate: the handler of the command extension.packForLlm *)

Uris == { Uri_file(p) : p \in Candidates }

\* An argument that is undefined, or has no fsPath
NoUri == [fsPath |-> <<>>]

SeqsUpTo(S, n) == UNION { [1..k -> S] : k \in 0..n }

\* The arguments of a call: args.length, args[0], Array.isArray(args[1]), args[1]
ArgLists ==
    { [length |-> 0, a0 |-> NoUri, isArray |-> FALSE, a1 |-> <<>>] }
    \cup { [length |-> 1, a0 |-> u, isArray |-> FALSE, a1 |-> <<>>] :
             u \in Uris \cup {NoUri} }
    \cup { [length |-> 2, a0 |-> u, isArray |-> FALSE, a1 |-> <<>>] :
             u \in Uris \cup {NoUri} }
    \cup { [length |-> 2, a0 |-> NoUri, isArray |-> TRUE, a1 |-> m] :
             m \in SeqsUpTo(Uris, MaxSel) }
    \cup { [length |-> 2, a0 |-> m[1], isArray |-> TRUE, a1 |-> m] :
             m \in SeqsUpTo(Uris, MaxSel) \ {<<>>} }
    \cup { [length |-> 2, a0 |-> u, isArray |-> TRUE, a1 |-> m] :
             u \in Uris, m \in SeqsUpTo(Uris, MaxSel - 1) }

\* "If called from Explorer context menu with selection"
selectFromArgs(args) ==
    IF args.length > 0
    THEN IF args.length > 1 /\ args.isArray
         THEN IF /\ args.a0.fsPath # <<>>
                 /\ ~ \E k \in 1..Len(args.a1) : args.a1[k].fsPath = args.a0.fsPath
              THEN <<args.a0>> \o args.a1
              ELSE args.a1
         ELSE IF args.a0.fsPath # <<>> THEN <<args.a0>> ELSE <<>>
    ELSE <<>>

leftoverFileList == allFiles

\* let allFiles = []
emptyFileList == <<>>

nothingSelected_never(resources) == FALSE

\* selectedResources.length === 0, after the fallbacks
nothingSelected(resources) == Len(resources) = 0

noFilesFound_never(files) == FALSE

\* allFiles.length === 0
noFilesFound(files) == Len(files) = 0

\* The handler from the test of selectedResources on, the selection being final
Proceed(resources) ==
    /\ selectedResources' = resources
    /\ resIdx' = 1
    /\ IF nothingSelected(resources)
       THEN /\ messages' = << Message("warning",
                                      "No files or folders selected to pack.", <<>>, 0) >>
            /\ pc' = "done"
       ELSE /\ messages' = <<>>
            /\ pc' = "resolve"
    /\ IF resources = prevSel
       THEN UNCHANGED <<prevSel, prevDoc>>
       ELSE prevSel' = <<>> /\ prevDoc' = <<>>

\* The command is invoked: the selection from the arguments, else from the active
\* editor, else the open dialog is shown
Invoke(args) ==
    /\ pc \in {"idle", "done"}
    /\ Len(selectFromArgs(args)) <= MaxSel
    /\ allFiles' = emptyFileList
    /\ origin' = [k \in 1..Len(emptyFileList) |-> 0]
    /\ content' = <<>>
    /\ shownDoc' = <<>>
    /\ IF Len(selectFromArgs(args)) = 0
       THEN IF activeTextEditor # <<>>
            THEN Proceed(<< Uri_file(activeTextEditor) >>)
            ELSE /\ pc' = "dialog"
                 /\ selectedResources' = <<>>
                 /\ resIdx' = 1
                 /\ messages' = <<>>
                 /\ UNCHANGED <<prevSel, prevDoc>>
       ELSE Proceed(selectFromArgs(args))
    /\ UNCHANGED <<fsDenied, fsBroken, activeTextEditor>>

\* showOpenDialog resolves, with the resources picked or (<<>>) cancelled
OpenDialog(result) ==
    /\ pc = "dialog"
    /\ Proceed(result)
    /\ UNCHANGED <<fsDenied, fsBroken, activeTextEditor,
                   allFiles, origin, content, shownDoc>>

\* getFilesFromResources: one iteration of the loop; what it throws is caught by
\* the handler
ResolveNext ==
    /\ pc = "resolve"
    /\ resIdx <= Len(selectedResources)
    /\ LET r == resolveResource(selectedResources[resIdx], allFiles)
       IN  IF r.threw
           THEN /\ messages' = Append(messages,
                                      Message("error", "Error packing files", r.err, 0))
                /\ pc' = "done"
                /\ allFiles' = <<>>
                /\ origin' = <<>>
                /\ UNCHANGED resIdx
           ELSE /\ allFiles' = r.list
                /\ origin' = origin \o [k \in 1..(Len(r.list) - Len(allFiles)) |-> resIdx]
                /\ resIdx' = resIdx + 1
                /\ UNCHANGED <<messages, pc>>
    /\ UNCHANGED <<fsDenied, fsBroken, activeTextEditor, selectedResources,
                   content, shownDoc, prevSel, prevDoc>>

\* getFilesFromResources returns; the handler tests allFiles
ResolveDone ==
    /\ pc = "resolve"
    /\ resIdx > Len(selectedResources)
    /\ IF noFilesFound(allFiles)
       THEN /\ messages' = Append(messages,
                                  Message("warning",
                                          "No files found in the selected resources.",
                                          <<>>, 0))
            /\ pc' = "done"
       ELSE /\ pc' = "pack"
            /\ UNCHANGED messages
    /\ UNCHANGED <<fsDenied, fsBroken, activeTextEditor, selectedResources,
                   resIdx, allFiles, origin, content, shownDoc, prevSel, prevDoc>>

\* const content = packFiles(allFiles)
Pack(now) ==
    /\ pc = "pack"
    /\ content' = packFiles(allFiles, now)
    /\ messages' = messages \o packErrors(allFiles)
    /\ pc' = "show"
    /\ UNCHANGED <<fsDenied, fsBroken, activeTextEditor, selectedResources,
                   resIdx, allFiles, origin, shownDoc, prevSel, prevDoc>>

\* openTextDocument, showTextDocument (the new untitled document becomes the
\* active editor) and the closing message
Show ==
    /\ pc = "show"
    /\ shownDoc' = content
    /\ activeTextEditor' = <<Root, n_Untitled>>
    /\ messages' = Append(messages,
                          Message("info", "Successfully packed", <<>>, Len(allFiles)))
    /\ pc' = "done"
    /\ prevSel' = selectedResources
    /\ prevDoc' = content
    /\ UNCHANGED <<fsDenied, fsBroken, selectedResources, resIdx, allFiles,
                   origin, content>>

Init ==
    /\ fsDenied \in SUBSET Deniable
    /\ fsBroken \in SUBSET Breakable
    /\ activeTextEditor \in {<<>>, p_M_RS}
    /\ pc = "idle"
    /\ selectedResources = <<>>
    /\ resIdx = 1
    /\ allFiles = <<>>
    /\ origin = <<>>
    /\ content = <<>>
    /\ shownDoc = <<>>
    /\ messages = <<>>
    /\ prevSel = <<>>
    /\ prevDoc = <<>>

Next ==
    \/ \E args \in ArgLists : Invoke(args)
    \/ \E result \in SeqsUpTo(Uris, MaxSel) : OpenDialog(result)
    \/ ResolveNext
    \/ ResolveDone
    \/ \E now \in Timestamps : Pack(now)
    \/ Show

Spec == Init /\ [][Next]_vars

TypeOK ==
    /\ pc \in {"idle", "dialog", "resolve", "pack", "show", "done"}
    /\ Len(origin) = Len(allFiles)

-----------------------------------------------------------------------------
(* Vocabulary of the properties *)

Done == pc = "done"

Indices(seq) == [i \in 1..Len(seq) |-> i]

\* The positions of seq whose element satisfies Test
Positions(seq, Test(_)) == { i \in 1..Len(seq) : Test(seq[i]) }

\* Path d is e or lies below e, and no name of d below e starts with '.'
VisibleBelow(e, d) ==
    /\ IsPrefix(e, d)
    /\ \A j \in (Len(e) + 1)..Len(d) : d[j][1] # "."

\* Some name of p below e starts with '.'
HiddenBelow(e, p) == \E j \in (Len(e) + 1)..Len(p) : p[j][1] = "."

\* The entries of the selection the loop of getFilesFromResources has completed
Completed ==
    IF pc \in {"resolve", "pack", "show"} \/ (Done /\ resIdx > Len(selectedResources))
    THEN 1..(resIdx - 1)
    ELSE {}

\* A display path that names the file: its absolute path, or its path relative to
\* the workspace folder
Names(path, uri) == path = uri.fsPath \/ workspaceFolder \o path = uri.fsPath

\* The positions of allFiles whose file cannot be read
Unreadable == Positions(allFiles, LAMBDA u : u.fsPath \in fsDenied)

LinesOf(doc, text) == SelectSeq(doc, LAMBDA l : l.text = text)

ErrorsReading == SelectSeq(messages, LAMBDA m : m.text = "Error reading file")

NothingToPack ==
    { "No files or folders selected to pack.",
      "No files found in the selected resources." }

-----------------------------------------------------------------------------
(* C1: for a directory entry point, no file of the resolved list that comes   *)
(* from it has a name below the entry point that starts with '.': hidden      *)
(* files are left out and hidden subdirectories are pruned at every depth.    *)
C1_NoHiddenBelowDirectoryEntry ==
    \A k \in 1..Len(allFiles) :
        origin[k] \in 1..Len(selectedResources) =>
            LET e == selectedResources[origin[k]].fsPath
                p == allFiles[k].fsPath
            IN  isDirectory(e) =>
                    /\ IsPrefix(e, p)
                    /\ Len(p) > Len(e)
                    /\ ~HiddenBelow(e, p)

\* A directory with hidden entries at two depths has been resolved.
C1_Witness ==
    /\ pc = "pack"
    /\ selectedResources = << Uri_file(p_sub) >>
    /\ \E k \in 1..Len(allFiles) : allFiles[k].fsPath = p_lib_rs

-----------------------------------------------------------------------------
(* C2: a file that cannot be read during packFiles is not fatal: for each     *)
(* position of the file list whose file cannot be read there is exactly one   *)
(* message, naming that file, that position contributes no line to the block  *)
(* section, every other position has its complete block, in list order, and   *)
(* the document is shown.                                                     *)
C2_UnreadableFileSkipped ==
    content # <<>> =>
        LET readable == SelectSeq(Indices(allFiles), LAMBDA i : i \notin Unreadable)
            failed == SelectSeq(Indices(allFiles), LAMBDA i : i \in Unreadable)
            heads == LinesOf(content, "# FILE")
        IN  /\ Len(ErrorsReading) = Len(failed)
            /\ \A j \in 1..Len(failed) :
                   Names(ErrorsReading[j].path, allFiles[failed[j]])
            /\ Len(heads) = Len(readable)
            /\ \A j \in 1..Len(readable) :
                   /\ heads[j].a = readable[j]
                   /\ Names(heads[j].path, allFiles[readable[j]])
            /\ Len(LinesOf(content, "#")) = 2 * Len(readable)
            /\ Len(LinesOf(content, "=")) = 1 + Len(readable)
            /\ Len(LinesOf(content, "# Size:")) = Len(readable)
            /\ Done => shownDoc = content

\* One unreadable file among three: the document with the two other blocks is shown.
C2_Witness ==
    /\ Done
    /\ shownDoc # <<>>
    /\ Len(allFiles) = 3
    /\ Cardinality(Unreadable) = 1
    /\ Len(ErrorsReading) = 1
    /\ Len(LinesOf(shownDoc, "# FILE")) = 2

-----------------------------------------------------------------------------
(* C3: when an entry path does not exist, or it or a directory visited below  *)
(* it cannot be read during resolution, the invocation is aborted: no file    *)
(* list is packed, no document is produced or shown, and the invocation ends  *)
(* with the error message, wherever the entry is in the selection.            *)
FailsToResolve(e) ==
    \/ statThrows(e)
    \/ /\ isDirectory(e)
       /\ \E d \in Dirs :
              /\ VisibleBelow(e, d)
              /\ \/ d \in fsDenied
                 \/ \E k \in 1..Len(readdirSync(d)) :
                        statThrows(Append(d, readdirSync(d)[k]))

SomeEntryFails ==
    \E i \in 1..Len(selectedResources) : FailsToResolve(selectedResources[i].fsPath)

C3_BadEntryAborts ==
    SomeEntryFails =>
        /\ pc \notin {"pack", "show"}
        /\ content = <<>>
        /\ shownDoc = <<>>
        /\ Done =>
              /\ Len(messages) = 1
              /\ messages[1].level = "error"
              /\ messages[1].text = "Error packing files"
              /\ \E i \in 1..Len(selectedResources) :
                     IsPrefix(selectedResources[i].fsPath, messages[1].path)

\* A missing entry after a good one: the good one's file is not packed.
C3_Witness ==
    /\ Done
    /\ selectedResources = << Uri_file(p_b_js), Uri_file(p_ghost) >>
    /\ p_b_js \notin fsDenied
    /\ messages[1].path = p_ghost

-----------------------------------------------------------------------------
(* C4: with no entry point selected (none in the arguments, no active editor, *)
(* nothing picked in the dialog) the invocation ends with the "nothing to     *)
(* pack" warning; nothing is resolved, packed or shown.                       *)
C4_NoEntryNothingToPack ==
    /\ pc \in {"resolve", "pack", "show"} => selectedResources # <<>>
    /\ (Done /\ selectedResources = <<>>) =>
           /\ Len(messages) = 1
           /\ messages[1].level = "warning"
           /\ messages[1].text \in NothingToPack
           /\ allFiles = <<>>
           /\ content = <<>>
           /\ shownDoc = <<>>

C4_Witness ==
    /\ Done
    /\ selectedResources = <<>>
    /\ Len(messages) = 1

-----------------------------------------------------------------------------
(* C5: when the resolution of a non-empty selection returns no file, the      *)
(* invocation ends with the "nothing to pack" warning; packFiles is not       *)
(* called and no document is produced.                                         *)
C5_NoFilesNothingToPack ==
    /\ pc \in {"pack", "show"} => allFiles # <<>>
    /\ content # <<>> => allFiles # <<>>
    /\ (Done /\ selectedResources # <<>> /\ resIdx > Len(selectedResources)
             /\ allFiles = <<>>) =>
           /\ Len(messages) = 1
           /\ messages[1].level = "warning"
           /\ messages[1].text \in NothingToPack
           /\ content = <<>>
           /\ shownDoc = <<>>

\* A directory holding only a hidden file was selected.
C5_Witness ==
    /\ Done
    /\ selectedResources = << Uri_file(p_void) >>
    /\ resIdx = 2
    /\ allFiles = <<>>

-----------------------------------------------------------------------------
(* C6: a regular file that is itself an entry point is in the resolved list   *)
(* (once for that entry), also when its name starts with '.'.                 *)
C6_DirectFileIncluded ==
    \A i \in Completed :
        LET e == selectedResources[i] IN
        (~statThrows(e.fsPath) /\ ~isDirectory(e.fsPath)) =>
            /\ Cardinality({ k \in 1..Len(allFiles) : origin[k] = i }) = 1
            /\ \E k \in 1..Len(allFiles) : origin[k] = i /\ allFiles[k] = e
            /\ content # <<>> =>
                   \E l \in 1..Len(content) :
                       content[l].text = "toc" /\ Names(content[l].path, e)

\* The hidden file .env was selected directly and is in the document shown.
C6_Witness ==
    /\ Done
    /\ shownDoc # <<>>
    /\ \E i \in 1..Len(selectedResources) : selectedResources[i].fsPath = p_env
    /\ \E k \in 1..Len(allFiles) : allFiles[k].fsPath = p_env

-----------------------------------------------------------------------------
(* C7: the resolved list is the concatenation, in entry order, of the         *)
(* expansions of the entries (the file itself for a file entry, the files     *)
(* below a directory entry that no hidden name hides, in traversal order),    *)
(* without deduplication: a file that k entries expand to is k times in the   *)
(* list and k times in the table of contents.                                 *)

\* Entry e expands to file f
Expands(e, f) ==
    IF isDirectory(e)
    THEN f \in FilePaths /\ Len(f) > Len(e) /\ VisibleBelow(e, f)
    ELSE f = e

\* The number of completed entries that expand to f
TimesSelected(f) ==
    Cardinality({ i \in Completed : Expands(selectedResources[i].fsPath, f) })

TimesListed(f) == Cardinality({ k \in 1..Len(allFiles) : allFiles[k].fsPath = f })

TimesIn(doc, text, f) ==
    Cardinality({ l \in 1..Len(doc) :
                    doc[l].text = text /\ Names(doc[l].path, Uri_file(f)) })

\* The position of name in the listing of directory d
ListedAt(d, name) ==
    CHOOSE k \in 1..Len(readdirSync(d)) : readdirSync(d)[k] = name

\* File p is reached before file q by a traversal in listing order
TraversedBefore(p, q) ==
    LET j == CHOOSE j \in 1..Len(p) : p[j] # q[j] /\ \A m \in 1..(j - 1) : p[m] = q[m]
    IN  ListedAt(SubSeq(p, 1, j - 1), p[j]) < ListedAt(SubSeq(p, 1, j - 1), q[j])

Selectable == FilePaths \cup { selectedResources[i].fsPath : i \in 1..Len(selectedResources) }

ListIsConcatenation ==
    /\ \A f \in Selectable : TimesListed(f) = TimesSelected(f)
    /\ \A k \in 1..Len(allFiles) :
           /\ origin[k] \in Completed
           /\ Expands(selectedResources[origin[k]].fsPath, allFiles[k].fsPath)
    /\ \A k \in 1..(Len(allFiles) - 1) :
           /\ origin[k] <= origin[k + 1]
           /\ origin[k] = origin[k + 1] =>
                  TraversedBefore(allFiles[k].fsPath, allFiles[k + 1].fsPath)

ContentsIsConcatenation ==
    content # <<>> => \A f \in Selectable : TimesIn(content, "toc", f) = TimesSelected(f)

\* The claim as stated: also k times in the block section, for every file.
C7_NoDedup_AsStated ==
    /\ ListIsConcatenation
    /\ ContentsIsConcatenation
    /\ content # <<>> =>
           \A f \in Selectable : TimesIn(content, "# FILE", f) = TimesSelected(f)

(* C7, amended: ... and k times in the block section when the file can be     *)
(* read; a file that cannot be read has no block and k messages instead.      *)
C7_NoDedup ==
    /\ ListIsConcatenation
    /\ ContentsIsConcatenation
    /\ content # <<>> =>
           \A f \in Selectable :
               IF f \in fsDenied
               THEN /\ TimesIn(content, "# FILE", f) = 0
                    /\ TimesIn(messages, "Error reading file", f) = TimesSelected(f)
               ELSE TimesIn(content, "# FILE", f) = TimesSelected(f)

\* b.js is selected as a file and below the directory sub: twice in the document.
C7_Witness ==
    /\ Done
    /\ shownDoc # <<>>
    /\ selectedResources = << Uri_file(p_sub), Uri_file(p_b_js) >>
    /\ TimesListed(p_b_js) = 2
    /\ TimesIn(shownDoc, "toc", p_b_js) = 2
    /\ TimesIn(shownDoc, "# FILE", p_b_js) = 2

-----------------------------------------------------------------------------
(* C8: the document packFiles produces for a list of N files has one line     *)
(* "Total files: N" and a table of contents of exactly N lines, the i-th      *)
(* numbered i and naming the i-th file of the list, also when files of the    *)
(* list cannot be read.                                                       *)
C8_TotalAndContents ==
    content # <<>> =>
        LET total == LinesOf(content, "# Total files:")
            toc == LinesOf(content, "toc")
        IN  /\ Len(total) = 1
            /\ total[1].a = Len(allFiles)
            /\ Len(toc) = Len(allFiles)
            /\ \A i \in 1..Len(toc) :
                   /\ toc[i].a = i
                   /\ Names(toc[i].path, allFiles[i])

C8_Witness ==
    /\ content # <<>>
    /\ Len(allFiles) >= 3
    /\ Unreadable # {}
    /\ Len(LinesOf(content, "toc")) = Len(allFiles)

-----------------------------------------------------------------------------
(* C9: a block has the line "# Language: <id>" and its content in a fence     *)
(* tagged <id> exactly when the extension of the file maps to <id> in the     *)
(* static table; otherwise it has no such line and the content is not fenced. *)

\* The block that starts with the "# FILE" line at position l is the block of a
\* file whose language is id ("" for none)
BlockHasLanguage(doc, l, id, text) ==
    IF id # ""
    THEN /\ l + 10 <= Len(doc)
         /\ doc[l + 2] = Line("# Language:", 0, 0, <<>>, id)
         /\ doc[l + 3] = Divider("#")
         /\ doc[l + 4] = Blank
         /\ doc[l + 5] = Line(Fence, 0, 0, <<>>, id)
         /\ doc[l + 6] = Line("", 0, 0, <<>>, text)
         /\ doc[l + 7] = Line(Fence, 0, 0, <<>>, "")
         /\ doc[l + 10] = Divider("=")
    ELSE /\ l + 7 <= Len(doc)
         /\ doc[l + 2] = Divider("#")
         /\ doc[l + 3] = Blank
         /\ doc[l + 4] = Line("", 0, 0, <<>>, text)
         /\ doc[l + 5] = Blank
         /\ doc[l + 6] = Blank
         /\ doc[l + 7] = Divider("=")

TableLanguage(ext) ==
    IF \E e \in langMap : e[1] = ext
    THEN (CHOOSE e \in langMap : e[1] = ext)[2]
    ELSE ""

\* The claim as stated: the extension as written in the file name is looked up.
C9_LanguageByExtension_AsStated ==
    \A l \in 1..Len(content) :
        content[l].text = "# FILE" =>
            LET f == allFiles[content[l].a].fsPath
            IN  BlockHasLanguage(content, l, TableLanguage(extname(f)), readFileSync(f))

(* C9, amended: ... exactly when the extension of the file, in lower case,    *)
(* maps to <id> in the static table.                                          *)
C9_LanguageByExtension ==
    \A l \in 1..Len(content) :
        content[l].text = "# FILE" =>
            LET f == allFiles[content[l].a].fsPath
            IN  BlockHasLanguage(content, l, TableLanguage(toLowerCase(extname(f))),
                                 readFileSync(f))

\* Blocks of lib.rs (rust) and n.xyz (no language) are in one document.
C9_Witness ==
    /\ content # <<>>
    /\ \E l \in 1..(Len(content) - 2) :
           /\ content[l].text = "# FILE"
           /\ allFiles[content[l].a].fsPath = p_lib_rs
           /\ content[l + 2] = Line("# Language:", 0, 0, <<>>, "rust")
    /\ \E l \in 1..(Len(content) - 2) :
           /\ content[l].text = "# FILE"
           /\ allFiles[content[l].a].fsPath = p_n_xyz
           /\ content[l + 2] = Divider("#")

-----------------------------------------------------------------------------
(* C10: a run on the selection of the last run that showed a document, the    *)
(* file system being unchanged, produces the same document except for the     *)
(* line of the generation timestamp, and the same document when the           *)
(* timestamp is the same.                                                     *)
C10_Idempotent ==
    (pc = "show" /\ prevDoc # <<>> /\ prevSel = selectedResources) =>
        /\ Len(content) = Len(prevDoc)
        /\ \A l \in 1..Len(content) :
               content[l] # prevDoc[l] => content[l].text = "# Generated:"
        /\ LinesOf(content, "# Generated:") = LinesOf(prevDoc, "# Generated:")
               => content = prevDoc

\* A second run on the same selection, at another time.
C10_Witness ==
    /\ pc = "show"
    /\ prevDoc # <<>>
    /\ prevSel = selectedResources
    /\ content # prevDoc
    /\ activeTextEditor = <<Root, n_Untitled>>

====
